---- MODULE Spec2Model ----
(***************************************************************************)
(* turso-mappers: the derive macro that generates by-index row mapping,    *)
(* the code it generates, the batch mapper map_rows / query_as and the     *)
(* ColumnIndices registry.                                                  *)
(***************************************************************************)
EXTENDS Integers, Sequences, FiniteSets, TLC

\* ------------------------------------------------------------------ bounds
\* Longest row (number of columns) fed to a generated try_from_row.
MaxCols == 2
\* Most named fields of a declared struct whose types are all supported.
MaxFields == 2

\* ------------------------------------------------------- external values
\* turso::Value, the typed value of one cell.  kind is the variant, val the
\* payload (Null carries none; 0 stands in).
Value(kind, val) == [kind |-> kind, val |-> val]

NullValue == Value("Null", 0)

Values ==
    { Value("Integer", 1), Value("Integer", 2), Value("Text", "Charlie"),
      Value("Real", "3.12"), Value("Blob", <<1, 2, 3>>), NullValue }

\* Result<T, E>
Ok(v) == [ok |-> TRUE, val |-> v]

Err(e) == [ok |-> FALSE, err |-> e]

\* Option<T>
Some(v) == [some |-> TRUE, val |-> v]

None == [some |-> FALSE, val |-> 0]

\* turso::Row::get_value(idx) as the generated code uses it: the value at
\* the zero-based index, or the source's error when there is no such column.
get_value(row, idx) ==
    IF idx < Len(row) THEN Ok(row[idx + 1]) ELSE Err("IndexOutOfRange")

\* Value::as_integer / as_text / as_real / as_blob: Some(payload) for the
\* one matching variant, None for every other variant.
AccessorKind ==
    [as_integer |-> "Integer", as_text |-> "Text", as_real |-> "Real", as_blob |-> "Blob"]

as_kind(accessor, value) ==
    IF value.kind = AccessorKind[accessor] THEN Some(value.val) ELSE None

\* ---------------------------------------------------------------- errors
\* TursoMapperError: the variant, its String message (when it has one) and
\* the wrapped source error (when it has one).
ConversionError(msg) == [tag |-> "ConversionError", msg |-> msg, src |-> ""]

ColumnNotFound(name) == [tag |-> "ColumnNotFound", msg |-> name, src |-> ""]

\* impl From<turso::Error> for TursoMapperError
FromTursoError(e) == [tag |-> "TursoError", msg |-> "", src |-> e]

\* ------------------------------------------------------- syn type syntax
\* syn::Type: a path (segments, each with an identifier and its generic
\* arguments) or anything else (tuple, reference, array, ...).
Segment(ident, argKind, args) == [ident |-> ident, argKind |-> argKind, args |-> args]

TyOther == [tag |-> "Other", segs |-> <<>>]

TyPath(segs) == [tag |-> "Path", segs |-> segs]

ArgType(ty) == [tag |-> "Type", ty |-> ty]

ArgLifetime == [tag |-> "Lifetime", ty |-> TyOther]

\* ident
TyIdent(ident) == TyPath(<<Segment(ident, "None", <<>>)>>)

\* ident<inner>
TyGeneric(ident, inner) == TyPath(<<Segment(ident, "Angle", <<ArgType(inner)>>)>>)

\* Helper function to extract the type path from a Type
get_type_path(ty) ==
    IF ty.tag = "Path" /\ Len(ty.segs) > 0
    THEN LET segment == ty.segs[1]
             ident == segment.ident
         IN  IF /\ segment.argKind = "Angle"
                /\ Len(segment.args) > 0
                /\ segment.args[1].tag = "Type"
                /\ segment.args[1].ty.tag = "Path"
                /\ Len(segment.args[1].ty.segs) > 0
             THEN ident \o "<" \o segment.args[1].ty.segs[1].ident \o ">"
             ELSE ident
    ELSE "unknown"

\* Helper function to extract the inner type of an Option<T>
get_option_inner_type(ty) ==
    IF ty.tag = "Path" /\ Len(ty.segs) > 0
    THEN LET segment == ty.segs[1]
         IN  IF /\ segment.ident = "Option"
                /\ segment.argKind = "Angle"
                /\ Len(segment.args) > 0
                /\ segment.args[1].tag = "Type"
             THEN Some(get_type_path(segment.args[1].ty))
             ELSE None
    ELSE None

\* ----------------------------------------------------- the derive macro
\* One generated field initialiser, `#f_ident: <expr>`:
\*   form "req"  row.get_value(#idx)?.<accessor>().ok_or_else(|| ConversionError(msg))?
\*   form "opt"  match row.get_value(#idx) { Ok(value) => value.<accessor>() .., Err(_) => None }
\*   form "compile_error"  compile_error!(msg)
Mapper(f_ident, form, accessor, idx, msg) ==
    [f_ident |-> f_ident, form |-> form, accessor |-> accessor, idx |-> idx, msg |-> msg]

\* Mutant of field_mapper: a declared type without a branch falls into the
\* last branch (blob) instead of compile_error!.
field_mapper_fallthrough(idx, field) ==
    LET inner_type == get_option_inner_type(field.ty)
        type_path == get_type_path(field.ty)
    IN  IF inner_type.some
        THEN Mapper(field.ident, "opt",
                    CASE inner_type.val = "i64" -> "as_integer"
                      [] inner_type.val = "String" -> "as_text"
                      [] inner_type.val = "f64" -> "as_real"
                      [] OTHER -> "as_blob", idx, "")
        ELSE CASE type_path = "i64" ->
                    Mapper(field.ident, "req", "as_integer", idx, field.ident \o " is not an integer")
               [] type_path = "String" ->
                    Mapper(field.ident, "req", "as_text", idx, field.ident \o " is not a string")
               [] type_path = "f64" ->
                    Mapper(field.ident, "req", "as_real", idx, field.ident \o " is not a real")
               [] OTHER ->
                    Mapper(field.ident, "req", "as_blob", idx, field.ident \o " is not a blob")

\* The closure of impl_try_from_row applied to (idx, field).
field_mapper(idx, field) ==
    LET f_ident == field.ident
        f_type == field.ty
        inner_type == get_option_inner_type(f_type)
        type_path == get_type_path(f_type)
    IN  IF inner_type.some
        THEN CASE inner_type.val = "i64" -> Mapper(f_ident, "opt", "as_integer", idx, "")
               [] inner_type.val = "String" -> Mapper(f_ident, "opt", "as_text", idx, "")
               [] inner_type.val = "f64" -> Mapper(f_ident, "opt", "as_real", idx, "")
               [] inner_type.val = "Vec<u8>" -> Mapper(f_ident, "opt", "as_blob", idx, "")
               [] OTHER -> Mapper(f_ident, "compile_error", "", idx,
                                  "Unsupported Option type: Option<" \o inner_type.val \o ">")
        ELSE CASE type_path = "i64" ->
                    Mapper(f_ident, "req", "as_integer", idx, f_ident \o " is not an integer")
               [] type_path = "String" ->
                    Mapper(f_ident, "req", "as_text", idx, f_ident \o " is not a string")
               [] type_path = "f64" ->
                    Mapper(f_ident, "req", "as_real", idx, f_ident \o " is not a real")
               [] type_path = "Vec<u8>" ->
                    Mapper(f_ident, "req", "as_blob", idx, f_ident \o " is not a blob")
               [] OTHER ->
                    Mapper(f_ident, "compile_error", "", idx, "Unsupported type: " \o type_path)

\* The fields the macro keeps: those of a struct that have an identifier.
named_fields(ast) == SelectSeq(ast.fields, LAMBDA field : field.named)

\* Mutant of impl_try_from_row: columns numbered from one.
impl_try_from_row_one_based(ast) ==
    IF ast.data # "Struct"
    THEN [panic |-> TRUE, ident |-> ast.ident, field_mappers |-> <<>>]
    ELSE LET fields == SelectSeq(ast.fields, LAMBDA field : field.named)
         IN  [panic |-> FALSE, ident |-> ast.ident,
              field_mappers |-> [i \in 1..Len(fields) |-> field_mapper(i, fields[i])]]

\* impl_try_from_row: the expansion for one derive input.  A non-struct
\* input panics inside the macro; otherwise every kept field is numbered by
\* its place among the kept fields, from zero.
impl_try_from_row(ast) ==
    IF ast.data # "Struct"
    THEN [panic |-> TRUE, ident |-> ast.ident, field_mappers |-> <<>>]
    ELSE LET fields == named_fields(ast)
         IN  [panic |-> FALSE, ident |-> ast.ident,
              field_mappers |-> [i \in 1..Len(fields) |-> field_mapper(i - 1, fields[i])]]

\* What the compiler reports for an expansion: the macro's panic, else the
\* message of every compile_error! in it, else a struct literal that leaves
\* declared fields out (the unnamed fields the macro dropped).
diagnostics(ast, expansion) ==
    IF expansion.panic
    THEN <<"turso_mappers::TryFromRow only supports structs">>
    ELSE LET errors == SelectSeq(expansion.field_mappers, LAMBDA m : m.form = "compile_error")
         IN  IF Len(errors) > 0
             THEN [i \in 1..Len(errors) |-> errors[i].msg]
             ELSE IF Len(expansion.field_mappers) # Len(ast.fields)
                  THEN <<"missing fields in initializer of " \o ast.ident>>
                  ELSE <<>>

\* ------------------------------------------------- the generated code
\* Mutant of eval_field: a non-optional mismatch yields a default value.
eval_field_defaulting(m, row) ==
    LET fetched == get_value(row, m.idx)
    IN  IF m.form = "opt"
        THEN Ok(IF fetched.ok THEN as_kind(m.accessor, fetched.val) ELSE None)
        ELSE IF ~fetched.ok
             THEN Err(FromTursoError(fetched.err))
             ELSE LET got == as_kind(m.accessor, fetched.val)
                  IN  IF got.some THEN Ok(got.val) ELSE Ok(0)

\* Mutant of eval_field: an optional field is strict, only Null is absent
\* and a fetch or variant failure is an error.
eval_field_strict_option(m, row) ==
    LET fetched == get_value(row, m.idx)
        got == as_kind(m.accessor, fetched.val)
    IN  IF ~fetched.ok
        THEN Err(FromTursoError(fetched.err))
        ELSE IF m.form = "opt"
             THEN IF got.some THEN Ok(got)
                  ELSE IF fetched.val.kind = "Null" THEN Ok(None)
                       ELSE Err(ConversionError(m.f_ident))
             ELSE IF got.some THEN Ok(got.val) ELSE Err(ConversionError(m.msg))

\* Mutant of eval_field: a failed fetch of a non-optional field is reported
\* as the field's conversion error.
eval_field_fetch_as_conversion(m, row) ==
    LET fetched == get_value(row, m.idx)
    IN  IF m.form = "opt"
        THEN Ok(IF fetched.ok THEN as_kind(m.accessor, fetched.val) ELSE None)
        ELSE IF ~fetched.ok
             THEN Err(ConversionError(m.msg))
             ELSE LET got == as_kind(m.accessor, fetched.val)
                  IN  IF got.some THEN Ok(got.val) ELSE Err(ConversionError(m.msg))

\* One field initialiser evaluated against a row.
eval_field(m, row) ==
    LET fetched == get_value(row, m.idx)
    IN  IF m.form = "opt"
        THEN Ok(IF fetched.ok THEN as_kind(m.accessor, fetched.val) ELSE None)
        ELSE IF ~fetched.ok
             THEN Err(FromTursoError(fetched.err))
             ELSE LET got == as_kind(m.accessor, fetched.val)
                  IN  IF got.some THEN Ok(got.val) ELSE Err(ConversionError(m.msg))

\* Self { #(#field_mappers,)* }: the initialisers run in declared order; the
\* first `?` that fails returns from the function, so the rest do not run.
\* The outcomes of the initialisers that ran, from initialiser i on.
RECURSIVE eval_fields(_, _, _, _)
eval_fields(mappers, row, i, outs) ==
    IF i > Len(mappers)
    THEN outs
    ELSE LET r == eval_field(mappers[i], row)
         IN  IF r.ok
             THEN eval_fields(mappers, row, i + 1, Append(outs, r))
             ELSE Append(outs, r)

\* Mutant of returned: a failure hands back the fields set so far.
returned_partial(mappers, outs) ==
    LET done == SelectSeq(outs, LAMBDA o : o.ok)
    IN  Ok([i \in 1..Len(done) |-> [name |-> mappers[i].f_ident, val |-> done[i].val]])

\* What the function returns given the initialisers that ran: the error of
\* the one that failed, else Ok of the record with every field set.
returned(mappers, outs) ==
    IF Len(outs) > 0 /\ ~outs[Len(outs)].ok
    THEN outs[Len(outs)]
    ELSE Ok([i \in 1..Len(outs) |-> [name |-> mappers[i].f_ident, val |-> outs[i].val]])

\* The generated try_from_row(row).
try_from_row(mappers, row) == returned(mappers, eval_fields(mappers, row, 1, <<>>))

\* ------------------------------------------------------ derive inputs
Field(ident, ty) == [named |-> TRUE, ident |-> ident, ty |-> ty]

UnnamedField(ty) == [named |-> FALSE, ident |-> "", ty |-> ty]

DeriveInput(ident, data, fields) == [ident |-> ident, data |-> data, fields |-> fields]

\* The eight declared types the macro has a branch for.
ScalarTypes == { TyIdent("i64"), TyIdent("String"), TyIdent("f64"), TyGeneric("Vec", TyIdent("u8")) }

SupportedTypes == ScalarTypes \cup { TyGeneric("Option", t) : t \in ScalarTypes }

\* Declared types the macro has no branch for.
UnsupportedTypes ==
    { TyIdent("bool"),
      TyGeneric("Vec", TyIdent("String")),
      TyGeneric("Option", TyIdent("u32")),
      TyGeneric("Option", TyGeneric("Option", TyIdent("i64"))),
      TyGeneric("Option", TyOther),
      TyOther,
      TyPath(<<Segment("std", "None", <<>>), Segment("string", "None", <<>>),
               Segment("String", "None", <<>>)>>),
      TyPath(<<Segment("Option", "Angle", <<ArgLifetime>>)>>) }

FieldNames == <<"id", "name", "value", "image">>

\* Structs with 1..MaxFields named fields, every type supported.
SupportedStructs ==
    UNION { { DeriveInput("Customer", "Struct", [i \in 1..n |-> Field(FieldNames[i], tys[i])]) :
                tys \in [1..n -> SupportedTypes] } : n \in 1..MaxFields }

\* Structs with an unsupported field, alone or after / before a supported one.
UnsupportedStructs ==
    UNION { { DeriveInput("Customer", "Struct", <<Field("id", u)>>),
              DeriveInput("Customer", "Struct", <<Field("id", TyIdent("i64")), Field("name", u)>>),
              DeriveInput("Customer", "Struct", <<Field("id", u), Field("name", TyIdent("String"))>>) } :
            u \in UnsupportedTypes }
    \cup { DeriveInput("Customer", "Struct",
                       <<Field("id", TyIdent("bool")), Field("name", TyGeneric("Option", TyIdent("u32")))>>) }

OtherInputs ==
    { DeriveInput("Unit", "Struct", <<>>),
      DeriveInput("Pair", "Struct", <<UnnamedField(TyIdent("i64")), UnnamedField(TyIdent("bool"))>>),
      DeriveInput("Kind", "Enum", <<>>) }

DeriveInputs == SupportedStructs \cup UnsupportedStructs \cup OtherInputs

\* Rows of 0..MaxCols typed values.
Rows == UNION { [1..n -> Values] : n \in 0..MaxCols }

\* ------------------------------------------------------------- state
VARIABLES
    stage,      \* "source", "expanded", "built", "called"
    ast,        \* the struct declaration carrying the derive
    expansion,  \* what impl_try_from_row produced for it
    build,      \* "none", "ok", "halted"
    diags,      \* the compiler's messages when the build halted
    row,        \* the row given to the last try_from_row call
    ran,        \* the outcomes of the field initialisers that ran in that call
    ret         \* what that call returned

dvars == <<stage, ast, expansion, build, diags, row, ran, ret>>

VARIABLES
    entry,      \* the call under way: "query_as", or "map_rows" on the caller's own query
    conv,       \* the conversion function: the field initialisers of T::try_from_row
    source,     \* the database's side: the query's outcome and what the cursor will yield
    mpc,        \* "call", "loop" (about to pull), "convert" (row in hand), "done"
    pulled,     \* how many times the cursor's next() has been called
    cur,        \* the row pulled last
    out,        \* map_rows' local `rows`, the records collected so far
    applied,    \* the rows the conversion function has been applied to, in order
    result,     \* what the call returned to its caller
    first       \* the finished query_as call, kept while the same input is mapped by hand

mvars == <<entry, conv, source, mpc, pulled, cur, out, applied, result, first>>

VARIABLES
    rpc,            \* "start" (statement prepared), "built" (ColumnIndices::new returned)
    columns,        \* the statement's column names, in result order
    column_names,   \* ColumnIndices.column_names, the name -> position map
    answers         \* the get_index calls made so far: the name asked and the result

rvars == <<rpc, columns, column_names, answers>>

vars == <<dvars, mvars, rvars>>

NoExpansion == [panic |-> FALSE, ident |-> "", field_mappers |-> <<>>]

\* One event of a cursor: a row, or a failed fetch.
RowEvent(r) == [ev |-> "row", row |-> r]

FetchError == [ev |-> "err", row |-> <<>>]

NoCall == [taken |-> FALSE, result |-> Err(ConversionError("")), pulled |-> 0, applied |-> <<>>]

\* The HashMap with no entry.
EmptyMap == [k \in {} |-> 0]

\* No registry is in use.
RegIdle ==
    /\ rpc = "start"
    /\ columns = <<>>
    /\ column_names = EmptyMap
    /\ answers = <<>>

\* No batch call is in progress.
MapIdle ==
    /\ entry = "query_as"
    /\ conv = <<>>
    /\ source = [query |-> Ok(0), script |-> <<>>]
    /\ mpc = "done"
    /\ pulled = 0
    /\ cur = <<>>
    /\ out = <<>>
    /\ applied = <<>>
    /\ result = Ok(<<>>)
    /\ first = NoCall

\* No derive is in progress.
DeriveIdle ==
    /\ stage = "source"
    /\ ast = DeriveInput("Unit", "Struct", <<>>)
    /\ expansion = NoExpansion
    /\ build = "none"
    /\ diags = <<>>
    /\ row = <<>>
    /\ ran = <<>>
    /\ ret = Err(ConversionError(""))

InitDerive ==
    /\ MapIdle
    /\ RegIdle
    /\ stage = "source"
    /\ ast \in DeriveInputs
    /\ expansion = NoExpansion
    /\ build = "none"
    /\ diags = <<>>
    /\ row = <<>>
    /\ ran = <<>>
    /\ ret = Err(ConversionError(""))

\* The derive macro runs on the declaration.
Derive ==
    /\ stage = "source"
    /\ expansion' = impl_try_from_row(ast)
    /\ stage' = "expanded"
    /\ UNCHANGED <<ast, build, diags, row, ran, ret>>
    /\ UNCHANGED <<mvars, rvars>>

\* The compiler takes the expansion: any diagnostic halts the build.
Compile ==
    /\ stage = "expanded"
    /\ diags' = diagnostics(ast, expansion)
    /\ build' = IF Len(diagnostics(ast, expansion)) > 0 THEN "halted" ELSE "ok"
    /\ stage' = "built"
    /\ UNCHANGED <<ast, expansion, row, ran, ret>>
    /\ UNCHANGED <<mvars, rvars>>

\* The program calls the generated try_from_row on a row; only a build that
\* succeeded has a program to run.  The function reads nothing but its
\* argument, so one call per behaviour covers every call.
CallTryFromRow ==
    /\ stage = "built"
    /\ build = "ok"
    /\ \E r \in Rows :
        /\ row' = r
        /\ ran' = eval_fields(expansion.field_mappers, r, 1, <<>>)
        /\ ret' = try_from_row(expansion.field_mappers, r)
    /\ stage' = "called"
    /\ UNCHANGED <<ast, expansion, build, diags>>
    /\ UNCHANGED <<mvars, rvars>>

Next == Derive \/ Compile \/ CallTryFromRow

Spec == InitDerive /\ [][Next]_vars

\* ------------------------------------------------- claims on the macro
\* The text of a declared type as written in the struct.
RECURSIVE TypeText(_)
TypeText(ty) ==
    IF ty.tag # "Path"
    THEN "(i64, i64)"
    ELSE LET SegText(g) ==
                 g.ident \o
                 (IF g.argKind = "Angle" /\ Len(g.args) > 0
                  THEN "<" \o (IF g.args[1].tag = "Type" THEN TypeText(g.args[1].ty) ELSE "'a") \o ">"
                  ELSE "")
             Join[i \in 1..Len(ty.segs)] ==
                 IF i = 1 THEN SegText(ty.segs[1]) ELSE Join[i - 1] \o "::" \o SegText(ty.segs[i])
         IN  Join[Len(ty.segs)]

Contains(s, sub) ==
    \E i \in 1..(Len(s) + 1 - Len(sub)) : SubSeq(s, i, i + Len(sub) - 1) = sub

\* The Typed Value variant a declared scalar type (or the scalar an Option
\* wraps) stands for, and the words the conversion error uses for it.
ScalarOf(ty) == IF ty \in ScalarTypes THEN ty ELSE ty.segs[1].args[1].ty

KindOf(ty) ==
    CASE ScalarOf(ty) = TyIdent("i64") -> "Integer"
      [] ScalarOf(ty) = TyIdent("String") -> "Text"
      [] ScalarOf(ty) = TyIdent("f64") -> "Real"
      [] OTHER -> "Blob"

KindWords(ty) ==
    CASE KindOf(ty) = "Integer" -> "an integer"
      [] KindOf(ty) = "Text" -> "a string"
      [] KindOf(ty) = "Real" -> "a real"
      [] OTHER -> "a blob"

IsOptional(ty) == ty \in SupportedTypes \ ScalarTypes

\* Field j of the declaration is extracted successfully from the row.
Extracts(j) == j <= Len(row) /\ row[j].kind = KindOf(ast.fields[j].ty)

\* C3: a non-optional field of kind K whose column holds a K value is
\* extracted as Ok of the stored payload; when the column holds any other
\* variant (Null included) the extraction is a ConversionError whose message
\* names the field and the expected kind, and that error is what the call
\* returns: no value is made up for the field.
C3_NonOptionalExtraction ==
    stage = "called" =>
        \A j \in 1..Len(ran) :
            (ast.fields[j].ty \in ScalarTypes /\ j <= Len(row)) =>
                IF row[j].kind = KindOf(ast.fields[j].ty)
                THEN ran[j].ok /\ ran[j].val = row[j].val
                ELSE /\ ~ran[j].ok
                     /\ ran[j].err.tag = "ConversionError"
                     /\ Contains(ran[j].err.msg, ast.fields[j].ident)
                     /\ Contains(ran[j].err.msg, KindWords(ast.fields[j].ty))
                     /\ ret = ran[j]

\* C3 witness: a call in which one non-optional field matched its column and
\* a later one met Null.
C3_Witness ==
    /\ stage = "called"
    /\ Len(ran) = 2 /\ Len(row) >= 2
    /\ ast.fields[1].ty \in ScalarTypes /\ ran[1].ok
    /\ ast.fields[2].ty \in ScalarTypes /\ row[2] = NullValue /\ ~ran[2].ok

\* C4: an optional field never fails: its initialiser yields Some(payload)
\* exactly when its column exists and holds the wrapped kind, and None when
\* the column holds Null, holds another variant, or does not exist; a call
\* that fails never failed at an optional field.
C4_OptionalExtraction ==
    stage = "called" =>
        /\ \A j \in 1..Len(ran) :
            IsOptional(ast.fields[j].ty) =>
                /\ ran[j].ok
                /\ ran[j].val = (IF Extracts(j) THEN Some(row[j].val) ELSE None)
        /\ ~ret.ok => ~IsOptional(ast.fields[Len(ran)].ty)

\* C4 witness: two optional fields, the first on a column of another
\* non-Null variant, the second past the end of the row; both absent, no error.
C4_Witness ==
    /\ stage = "called"
    /\ Len(ast.fields) = 2 /\ Len(row) = 1
    /\ IsOptional(ast.fields[1].ty) /\ IsOptional(ast.fields[2].ty)
    /\ row[1].kind \notin {"Null", KindOf(ast.fields[1].ty)}
    /\ ret.ok /\ ret.val[1].val = None /\ ret.val[2].val = None

\* The value field j of the record takes from column j.
FromColumn(j) ==
    IF IsOptional(ast.fields[j].ty)
    THEN (IF Extracts(j) THEN Some(row[j].val) ELSE None)
    ELSE row[j].val

\* C6: the macro numbers the kept fields 0, 1, ... in declared order, and the
\* generated code reads field j from column j whatever the columns mean: on
\* a row with a column for every field (any permutation of a matching row is
\* one) the call fails with a conversion error when some non-optional field
\* meets a column of another kind, and otherwise returns the record whose
\* j-th field holds the j-th column's payload.
C6_ByIndexBinding ==
    /\ (stage # "source" /\ ~expansion.panic) =>
        \A j \in 1..Len(expansion.field_mappers) :
            /\ expansion.field_mappers[j].idx = j - 1
            /\ expansion.field_mappers[j].f_ident = named_fields(ast)[j].ident
    /\ (stage = "called" /\ Len(row) >= Len(ast.fields)) =>
        IF \A j \in 1..Len(ast.fields) : IsOptional(ast.fields[j].ty) \/ Extracts(j)
        THEN /\ ret.ok
             /\ \A j \in 1..Len(ast.fields) :
                    ret.val[j] = [name |-> ast.fields[j].ident, val |-> FromColumn(j)]
        ELSE ~ret.ok /\ ret.err.tag = "ConversionError"

\* C6 witness: two integer fields fed the row (2, 1), the columns of (1, 2)
\* swapped: the record comes back with the values swapped and no error.
C6_Witness ==
    /\ stage = "called"
    /\ Len(ast.fields) = 2
    /\ ast.fields[1].ty = TyIdent("i64") /\ ast.fields[2].ty = TyIdent("i64")
    /\ row = <<Value("Integer", 2), Value("Integer", 1)>>
    /\ ret.ok /\ ret.val[1].val = 2 /\ ret.val[2].val = 1

\* The non-optional fields whose extraction from the row fails.
FailingFields == { j \in 1..Len(ast.fields) : ~IsOptional(ast.fields[j].ty) /\ ~Extracts(j) }

FirstFailing == CHOOSE j \in FailingFields : \A k \in FailingFields : j <= k

\* C7: the call returns Ok exactly when every non-optional field extracts,
\* and then the record has every declared field; otherwise it returns only
\* the error of the first failing non-optional field in declared order (the
\* source's error when its column does not exist, the conversion error when
\* the variant differs), no later initialiser runs and no record is returned.
C7_AllOrNothing ==
    stage = "called" =>
        IF FailingFields = {}
        THEN /\ ret.ok
             /\ Len(ret.val) = Len(ast.fields)
             /\ \A j \in 1..Len(ast.fields) : ret.val[j].name = ast.fields[j].ident
        ELSE /\ ~ret.ok
             /\ DOMAIN ret = {"ok", "err"}
             /\ Len(ran) = FirstFailing
             /\ ret.err = (IF FirstFailing > Len(row)
                           THEN FromTursoError("IndexOutOfRange")
                           ELSE ConversionError(ast.fields[FirstFailing].ident \o " is not " \o
                                                KindWords(ast.fields[FirstFailing].ty)))

\* C7 witness: both non-optional fields of a two-field struct fail on the
\* row; the call returns the first one's error.
C7_Witness ==
    /\ stage = "called"
    /\ Len(row) = 2
    /\ Cardinality(FailingFields) = 2
    /\ ~ret.ok /\ Contains(ret.err.msg, ast.fields[1].ident)

\* The named fields of a struct whose declared type the macro has no branch for.
UnsupportedFields ==
    { j \in 1..Len(ast.fields) :
        ast.data = "Struct" /\ ast.fields[j].named /\ ast.fields[j].ty \notin SupportedTypes }

\* A declared type written as one identifier, or one identifier with one
\* such identifier as its only generic argument.
PlainType(ty) == ty.tag = "Path" /\ Len(ty.segs) = 1 /\ ty.segs[1].argKind = "None"

SimpleType(ty) ==
    \/ PlainType(ty)
    \/ /\ ty.tag = "Path" /\ Len(ty.segs) = 1
       /\ ty.segs[1].argKind = "Angle" /\ Len(ty.segs[1].args) = 1
       /\ ty.segs[1].args[1].tag = "Type" /\ PlainType(ty.segs[1].args[1].ty)

\* C8 as stated: a field of unsupported type halts the build with a message
\* that names both the field and the unsupported type.
C8_MessageNamesFieldAndType ==
    stage = "built" =>
        \A j \in UnsupportedFields :
            /\ build = "halted"
            /\ \E d \in 1..Len(diags) :
                /\ Contains(diags[d], ast.fields[j].ident)
                /\ Contains(diags[d], TypeText(ast.fields[j].ty))

\* C8 amended: a named field of unsupported type halts the build, so no
\* generated try_from_row ever runs for that struct; each such field adds an
\* "Unsupported ..." message, none of the messages names the field, and the
\* message carries the declared type as written when the type is a simple
\* one (for other types it carries a shortened form).
C8_UnsupportedHaltsBuild ==
    /\ stage = "built" =>
        /\ \A j \in UnsupportedFields :
            /\ build = "halted"
            /\ \E d \in 1..Len(diags) :
                /\ SubSeq(diags[d], 1, 11) = "Unsupported"
                /\ SimpleType(ast.fields[j].ty) => Contains(diags[d], TypeText(ast.fields[j].ty))
        /\ UnsupportedFields # {} =>
            /\ Len(diags) = Cardinality(UnsupportedFields)
            /\ \A d \in 1..Len(diags) : \A j \in UnsupportedFields :
                    ~Contains(diags[d], ast.fields[j].ident)
    /\ stage = "called" => UnsupportedFields = {}

\* C8 witness: a built struct with two unsupported fields, one of them an
\* Option around an unsupported kind; the build is halted with two messages.
C8_Witness ==
    /\ stage = "built" /\ build = "halted"
    /\ Cardinality(UnsupportedFields) = 2
    /\ \E j \in UnsupportedFields : get_option_inner_type(ast.fields[j].ty).some
    /\ Len(diags) = 2

\* ============================================== map_rows and query_as
\* Most events (rows and failed fetches) a cursor holds.
MaxRows == 3

\* The record types T the batch is mapped to: Customer { id: i64, name: String }
\* and one with an optional field, { id: i64, name: Option<String> }.
MapRecordTypes ==
    { DeriveInput("Customer", "Struct",
                  <<Field("id", TyIdent("i64")), Field("name", TyIdent("String"))>>),
      DeriveInput("CustomerWithOptions", "Struct",
                  <<Field("id", TyIdent("i64")), Field("name", TyGeneric("Option", TyIdent("String")))>>) }

\* Rows a query may yield: matching rows, a Null, swapped columns, a short row.
SampleRows ==
    { <<Value("Integer", 1), Value("Text", "Charlie")>>,
      <<Value("Integer", 2), Value("Text", "Sarah")>>,
      <<Value("Integer", 1), NullValue>>,
      <<Value("Text", "Charlie"), Value("Integer", 1)>>,
      <<Value("Integer", 2)>> }

Events == { RowEvent(r) : r \in SampleRows } \cup { FetchError }

Scripts == UNION { [1..n -> Events] : n \in 0..MaxRows }

\* turso::Rows::next(): the next row, end of data, or the source's failure.
next_row(script, n) ==
    IF n < Len(script)
    THEN (IF script[n + 1].ev = "row" THEN Ok(Some(script[n + 1].row)) ELSE Err("FetchFailed"))
    ELSE Ok(None)

InitMap ==
    /\ DeriveIdle
    /\ RegIdle
    /\ entry = "query_as"
    /\ conv \in { impl_try_from_row(t).field_mappers : t \in MapRecordTypes }
    /\ source \in [query : {Ok(0), Err("QueryFailed")}, script : Scripts]
    /\ mpc = "call"
    /\ pulled = 0
    /\ cur = <<>>
    /\ out = <<>>
    /\ applied = <<>>
    /\ result = Ok(<<>>)
    /\ first = NoCall

\* Mutant of query_step: a failed query is taken for an empty result.
query_step_swallow(q) == [mpc |-> "done", result |-> IF q.ok THEN Ok(<<>>) ELSE Ok(<<>>)]

\* let rows = self.query(sql, params).await?; then map_rows starts with an
\* empty vec.  A failed query returns its error wrapped as TursoError.
query_step(q) ==
    IF q.ok
    THEN [mpc |-> "loop", result |-> Ok(<<>>)]
    ELSE [mpc |-> "done", result |-> Err(FromTursoError(q.err))]

\* query_as: run the query, then rows.map_rows(T::try_from_row).
QueryAs ==
    /\ entry = "query_as" /\ mpc = "call"
    /\ mpc' = query_step(source.query).mpc
    /\ result' = query_step(source.query).result
    /\ out' = <<>>
    /\ UNCHANGED <<entry, conv, source, pulled, cur, applied, first>>
    /\ UNCHANGED <<dvars, rvars>>

\* The caller runs the query itself (conn.query(..).await?) and calls
\* map_rows(T::try_from_row) on the cursor it got.
CallerQuery ==
    /\ entry = "map_rows" /\ mpc = "call"
    /\ IF source.query.ok
       THEN mpc' = "loop" /\ result' = Ok(<<>>)
       ELSE mpc' = "done" /\ result' = Err(FromTursoError(source.query.err))
    /\ out' = <<>>
    /\ UNCHANGED <<entry, conv, source, pulled, cur, applied, first>>
    /\ UNCHANGED <<dvars, rvars>>

\* Mutant of Fetch: a failed fetch ends the loop like end of data.
Fetch_error_ends_loop ==
    /\ mpc = "loop"
    /\ pulled' = pulled + 1
    /\ LET n == next_row(source.script, pulled)
       IN  IF n.ok /\ n.val.some
           THEN mpc' = "convert" /\ cur' = n.val.val /\ result' = result
           ELSE mpc' = "done" /\ result' = Ok(out) /\ cur' = cur
    /\ UNCHANGED <<entry, conv, source, out, applied, first>>
    /\ UNCHANGED <<dvars, rvars>>

\* while let Some(row) = self.next().await?
Fetch ==
    /\ mpc = "loop"
    /\ pulled' = pulled + 1
    /\ LET n == next_row(source.script, pulled)
       IN  IF ~n.ok
           THEN mpc' = "done" /\ result' = Err(FromTursoError(n.err)) /\ cur' = cur
           ELSE IF n.val.some
                THEN mpc' = "convert" /\ cur' = n.val.val /\ result' = result
                ELSE mpc' = "done" /\ result' = Ok(out) /\ cur' = cur
    /\ UNCHANGED <<entry, conv, source, out, applied, first>>
    /\ UNCHANGED <<dvars, rvars>>

\* Mutant of Convert: a row that fails conversion is skipped.
Convert_skip_failed ==
    /\ mpc = "convert"
    /\ applied' = Append(applied, cur)
    /\ LET t == try_from_row(conv, cur)
       IN  /\ mpc' = "loop"
           /\ out' = IF t.ok THEN Append(out, t.val) ELSE out
           /\ result' = result
    /\ UNCHANGED <<entry, conv, source, pulled, cur, first>>
    /\ UNCHANGED <<dvars, rvars>>

\* Mutant of Convert: the record is put in front of the collected ones.
Convert_prepend ==
    /\ mpc = "convert"
    /\ applied' = Append(applied, cur)
    /\ LET t == try_from_row(conv, cur)
       IN  IF t.ok
           THEN mpc' = "loop" /\ out' = <<t.val>> \o out /\ result' = result
           ELSE mpc' = "done" /\ out' = out /\ result' = Err(t.err)
    /\ UNCHANGED <<entry, conv, source, pulled, cur, first>>
    /\ UNCHANGED <<dvars, rvars>>

\* let t: T = f(row)?; rows.push(t);
Convert ==
    /\ mpc = "convert"
    /\ applied' = Append(applied, cur)
    /\ LET t == try_from_row(conv, cur)
       IN  IF t.ok
           THEN mpc' = "loop" /\ out' = Append(out, t.val) /\ result' = result
           ELSE mpc' = "done" /\ out' = out /\ result' = Err(t.err)
    /\ UNCHANGED <<entry, conv, source, pulled, cur, first>>
    /\ UNCHANGED <<dvars, rvars>>

\* The finished query_as call is kept, and the same query is then run by the
\* caller and mapped with map_rows(T::try_from_row).
MapByHand ==
    /\ entry = "query_as" /\ mpc = "done"
    /\ first' = [taken |-> TRUE, result |-> result, pulled |-> pulled, applied |-> applied]
    /\ entry' = "map_rows"
    /\ mpc' = "call"
    /\ pulled' = 0
    /\ cur' = <<>>
    /\ out' = <<>>
    /\ applied' = <<>>
    /\ result' = Ok(<<>>)
    /\ UNCHANGED <<conv, source>>
    /\ UNCHANGED <<dvars, rvars>>

NextMap == QueryAs \/ CallerQuery \/ Fetch \/ Convert \/ MapByHand

SpecMap == InitMap /\ [][NextMap]_vars

\* ------------------------------------------- claims on the batch mapper
\* Event k of the cursor stops the batch: a failed fetch, or a row the
\* conversion function rejects.
Stops(k) ==
    \/ source.script[k].ev = "err"
    \/ ~try_from_row(conv, source.script[k].row).ok

Stoppers == { k \in 1..Len(source.script) : Stops(k) }

FirstStop == CHOOSE k \in Stoppers : \A j \in Stoppers : k <= j

\* The rows of events 1..n, in order.
RowsUpTo(n) == [i \in 1..n |-> source.script[i].row]

\* A call over a cursor has returned.
Returned == mpc = "done" /\ source.query.ok

\* C1: when the first thing to go wrong is the conversion of the k-th row
\* pulled, the call returns exactly that conversion's error and no records,
\* the cursor has been pulled k times and no more, and the conversion
\* function has been applied to rows 1..k and to no later row.
C1_ConversionFailureAborts ==
    (Returned /\ Stoppers # {}) =>
        (source.script[FirstStop].ev = "row" =>
            /\ ~result.ok
            /\ DOMAIN result = {"ok", "err"}
            /\ result.err = try_from_row(conv, source.script[FirstStop].row).err
            /\ pulled = FirstStop
            /\ applied = RowsUpTo(FirstStop))

\* C1 witness: three rows, the second fails conversion after the first was
\* converted and collected; the call has returned the failure.
C1_Witness ==
    /\ Returned
    /\ Len(source.script) = 3
    /\ \A k \in 1..3 : source.script[k].ev = "row"
    /\ Stoppers # {} /\ FirstStop = 2
    /\ Len(out) = 1
    /\ ~result.ok /\ result.err.tag = "ConversionError"

\* C2: when the cursor yields N rows and then end of data and every
\* conversion succeeds, the call returns Ok of N records, the i-th being the
\* conversion of the i-th row; the conversion function was applied to the N
\* rows once each in order; an empty cursor gives Ok of the empty sequence.
C2_AllRowsMapped ==
    (Returned /\ Stoppers = {}) =>
        /\ result.ok
        /\ Len(result.val) = Len(source.script)
        /\ \A i \in 1..Len(source.script) :
                result.val[i] = try_from_row(conv, source.script[i].row).val
        /\ applied = RowsUpTo(Len(source.script))
        /\ pulled = Len(source.script) + 1

\* C2 witness: two different rows mapped, in order.
C2_Witness ==
    /\ Returned /\ result.ok
    /\ Len(source.script) = 2
    /\ Len(result.val) = 2
    /\ result.val[1] # result.val[2]
    /\ result.val[1][1].val = source.script[1].row[1].val

\* C9: the same query mapped by query_as::<T> and by the caller's own query
\* followed by map_rows(T::try_from_row) returns the same result, after the
\* same pulls and the same conversions; and when the query itself fails,
\* query_as returns that failure wrapped as TursoError with no row pulled and
\* none converted.
C9_QueryAsIsQueryThenMapRows ==
    /\ (mpc = "done" /\ entry = "map_rows") =>
        /\ first.taken
        /\ first.result = result
        /\ first.pulled = pulled
        /\ first.applied = applied
    /\ (mpc = "done" /\ entry = "query_as" /\ ~source.query.ok) =>
        /\ result = Err(FromTursoError(source.query.err))
        /\ pulled = 0
        /\ applied = <<>>

\* C9 witness: both calls have finished on a cursor of two rows that map.
C9_Witness ==
    /\ mpc = "done" /\ entry = "map_rows"
    /\ first.taken /\ first.result.ok
    /\ Len(first.result.val) = 2
    /\ result.ok

\* C10: when the first thing to go wrong is the k-th pull failing, the call
\* returns that failure wrapped as TursoError and no records; the cursor has
\* been pulled k times and no more (no retry, no later fetch), and the
\* conversion function has been applied to the k-1 rows before it only.
C10_FetchFailureAborts ==
    (Returned /\ Stoppers # {}) =>
        (source.script[FirstStop].ev = "err" =>
            /\ result = Err(FromTursoError("FetchFailed"))
            /\ pulled = FirstStop
            /\ applied = RowsUpTo(FirstStop - 1))

\* C10 witness: the second pull fails after one row was converted and
\* collected, and a row was still to come.
C10_Witness ==
    /\ Returned
    /\ Len(source.script) = 3
    /\ source.script[1].ev = "row" /\ source.script[2].ev = "err" /\ source.script[3].ev = "row"
    /\ Len(out) = 1
    /\ ~result.ok /\ result.err.src = "FetchFailed"

\* ======================================================= ColumnIndices
\* Most columns of a statement, and most get_index calls followed.
MaxColumns == 3

MaxLookups == 2

ColumnNames == {"id", "name", "value"}

\* Names asked for: every column name and one no statement has.
AskedNames == ColumnNames \cup {"missing"}

ColumnLists == UNION { [1..n -> ColumnNames] : n \in 0..MaxColumns }

\* Mutant of insert: an entry already there is kept (first wins).
insert_keep_first(map, key, value) ==
    [k \in DOMAIN map \cup {key} |-> IF k \in DOMAIN map THEN map[k] ELSE value]

\* HashMap::insert: the key's entry is set, replacing an earlier one.
insert(map, key, value) ==
    [k \in DOMAIN map \cup {key} |-> IF k = key THEN value ELSE map[k]]

\* collect::<HashMap<String, usize>>() over the (name, i) pairs from pair n on.
RECURSIVE collect(_, _, _)
collect(map, cols, n) ==
    IF n > Len(cols) THEN map ELSE collect(insert(map, cols[n], n - 1), cols, n + 1)

\* ColumnIndices::new(columns)
ColumnIndices_new(cols) == collect(EmptyMap, cols, 1)

\* Mutant of get_index: an absent name resolves to position 0.
get_index_default(map, column_name) ==
    IF column_name \in DOMAIN map THEN Ok(map[column_name]) ELSE Ok(0)

\* ColumnIndices::get_index(column_name)
get_index(map, column_name) ==
    IF column_name \in DOMAIN map
    THEN Ok(map[column_name])
    ELSE Err(ColumnNotFound(column_name))

InitReg ==
    /\ DeriveIdle
    /\ MapIdle
    /\ rpc = "start"
    /\ columns \in ColumnLists
    /\ column_names = EmptyMap
    /\ answers = <<>>

\* let column_indices = ColumnIndices::new(statement.columns());
New ==
    /\ rpc = "start"
    /\ column_names' = ColumnIndices_new(columns)
    /\ rpc' = "built"
    /\ UNCHANGED <<columns, answers>>
    /\ UNCHANGED <<dvars, mvars>>

\* column_indices.get_index(name), for any row of the result set.
GetIndex ==
    /\ rpc = "built"
    /\ Len(answers) < MaxLookups
    /\ \E name \in AskedNames :
        answers' = Append(answers, [name |-> name, res |-> get_index(column_names, name)])
    /\ UNCHANGED <<rpc, columns, column_names>>
    /\ UNCHANGED <<dvars, mvars>>

NextReg == New \/ GetIndex

SpecReg == InitReg /\ [][NextReg]_vars

\* --------------------------------------------- claims on ColumnIndices
\* The zero-based positions at which the column list holds the name.
PositionsOf(name) == { i - 1 : i \in { j \in 1..Len(columns) : columns[j] = name } }

\* C5: every get_index call on the registry built from the column list
\* returned Ok of a zero-based position of the asked name when the list holds
\* it (its position, when it occurs once) and ColumnNotFound carrying exactly
\* the asked name when it does not; the lookups leave the registry as built,
\* so asking the same name again gives the same result.
C5_GetIndexResolves ==
    rpc = "built" =>
        /\ \A a \in 1..Len(answers) :
            IF PositionsOf(answers[a].name) # {}
            THEN answers[a].res.ok /\ answers[a].res.val \in PositionsOf(answers[a].name)
            ELSE /\ ~answers[a].res.ok
                 /\ answers[a].res.err.tag = "ColumnNotFound"
                 /\ answers[a].res.err.msg = answers[a].name
        /\ DOMAIN column_names = { columns[i] : i \in 1..Len(columns) }
        /\ \A name \in DOMAIN column_names : column_names[name] \in PositionsOf(name)
        /\ \A a, b \in 1..Len(answers) : answers[a].name = answers[b].name => answers[a] = answers[b]

\* C5 witness: over columns [id, name, value], "name" resolved to 1 and then
\* "missing" was not found.
C5_Witness ==
    /\ rpc = "built"
    /\ columns = <<"id", "name", "value">>
    /\ Len(answers) = 2
    /\ answers[1] = [name |-> "name", res |-> Ok(1)]
    /\ answers[2].name = "missing" /\ ~answers[2].res.ok

\* ------------------------------------ claims on rows shorter than the record
\* The record has more fields than the row given to the call has columns.
MoreFieldsThanColumns == stage = "called" /\ Len(ast.fields) > Len(row)

\* The non-optional fields whose column does not exist, and those whose
\* column exists and holds another variant.
OutOfRangeFields ==
    { j \in 1..Len(ast.fields) : ~IsOptional(ast.fields[j].ty) /\ j > Len(row) }

MismatchedFields ==
    { j \in 1..Len(ast.fields) :
        ~IsOptional(ast.fields[j].ty) /\ j <= Len(row) /\ row[j].kind # KindOf(ast.fields[j].ty) }

Least(S) == CHOOSE j \in S : \A k \in S : j <= k

\* C11 as stated, read in its favour (some non-optional field is past the
\* end of the row): the call fails at the first such field, with the
\* propagated source error.
C11_FailsAtFirstOutOfRange ==
    (MoreFieldsThanColumns /\ OutOfRangeFields # {}) =>
        /\ ~ret.ok
        /\ ret.err = FromTursoError("IndexOutOfRange")
        /\ Len(ran) = Least(OutOfRangeFields)

\* C11 amended: with more fields than columns no field count is compared
\* first: the initialisers run in declared order on the columns that exist.
\* A non-optional field on a column of another variant fails first, with its
\* conversion error; otherwise the first non-optional field past the end of
\* the row fails with the source's index-out-of-range error wrapped as
\* TursoError, which is not a conversion error, every field before it having
\* been extracted; and when every field past the end is optional the call
\* succeeds with those fields absent.  No other error ever comes back.
C11_ShortRow ==
    MoreFieldsThanColumns =>
        /\ Len(ran) >= 1
        /\ ~ret.ok => ret.err.tag \in {"ConversionError", "TursoError"}
        /\ IF MismatchedFields # {}
           THEN /\ ~ret.ok
                /\ ret.err.tag = "ConversionError"
                /\ Len(ran) = Least(MismatchedFields)
           ELSE IF OutOfRangeFields # {}
                THEN /\ ~ret.ok
                     /\ ret.err = FromTursoError("IndexOutOfRange")
                     /\ ret.err.tag # ConversionError(ret.err.msg).tag
                     /\ Len(ran) = Least(OutOfRangeFields)
                     /\ \A j \in 1..(Len(ran) - 1) : ran[j].ok
                ELSE /\ ret.ok
                     /\ \A j \in (Len(row) + 1)..Len(ast.fields) : ret.val[j].val = None

\* C11 witness: two non-optional fields and a row of one matching column:
\* the first field was extracted, the second failed out of range.
C11_Witness ==
    /\ MoreFieldsThanColumns
    /\ Len(ast.fields) = 2 /\ Len(row) = 1
    /\ MismatchedFields = {} /\ OutOfRangeFields = {2}
    /\ Len(ran) = 2 /\ ran[1].ok
    /\ ~ret.ok /\ ret.err.tag = "TursoError" /\ ret.err.src = "IndexOutOfRange"

\* ------------------------------------------ claims on duplicate columns
\* The names the column list holds.
ListedNames == { columns[i] : i \in 1..Len(columns) }

\* The last zero-based position at which the column list holds the name.
LastPositionOf(name) == CHOOSE p \in PositionsOf(name) : \A q \in PositionsOf(name) : q <= p

\* C12: the registry built from a column list, repeated names included,
\* holds exactly one entry per listed name, and the entry is the position of
\* the last column with that name; every get_index call for a listed name
\* returned that last position, which is a position where the name occurs.
C12_LastWins ==
    rpc = "built" =>
        /\ DOMAIN column_names = ListedNames
        /\ \A name \in ListedNames :
            /\ column_names[name] = LastPositionOf(name)
            /\ columns[column_names[name] + 1] = name
        /\ \A a \in 1..Len(answers) :
            answers[a].name \in ListedNames =>
                answers[a].res = Ok(LastPositionOf(answers[a].name))

\* C12 witness: the column list [id, name, id]; "id" resolved to 2, the last
\* of its two positions, and the registry has two entries.
C12_Witness ==
    /\ rpc = "built"
    /\ columns = <<"id", "name", "id">>
    /\ Cardinality(DOMAIN column_names) = 2
    /\ Len(answers) >= 1
    /\ answers[1] = [name |-> "id", res |-> Ok(2)]

====
